---- MODULE Spec2Model ----
(***************************************************************************)
(* Model of srouter's serf discovery (src/serf.go): the Serf struct, its   *)
(* Start lifecycle call, SetHandler, the gossip transport that feeds the   *)
(* bounded event channel, and the Loop goroutine that translates member    *)
(* events, consults the Handler and mutates the member registry.           *)
(*                                                                         *)
(* Go strings that the code parses or formats (addresses, the Routers      *)
(* list) are sequences of one-character strings; strings that are only     *)
(* compared (ids, tag keys and values, event types) are TLA+ strings.      *)
(***************************************************************************)
EXTENDS Integers, Sequences, FiniteSets, TLC

\* ------------------------------------------------------------------------
\* Bounds of the model
\* ------------------------------------------------------------------------
\* Events the transport emits during one behaviour of Spec, and peer
\* descriptors these events carry in total.
MaxSent == 2
\* Peer descriptors in one member event.
MaxBatch == 2
\* Events the transport emits during one behaviour of SpecSeq.
MaxSeqSent == 3
\* Peer descriptors fed to the side-by-side runs of SpecHyper, over all events.
MaxHyperPeers == 3
\* Start, Stop and Join calls and events the transports emit, together, during
\* one behaviour of SpecLife.
MaxCalls == 4
\* Events the transport emits during one behaviour of SpecStop.
MaxStopSent == 2
\* Events the transport emits during one behaviour of SpecRead.
MaxReadSent == 2
\* Join calls, and Members calls, during one behaviour of SpecRead.
MaxReadCalls == 1

\* ------------------------------------------------------------------------
\* Program constants
\* ------------------------------------------------------------------------
\* make(chan serf.Event, 3)
EventChCap == 3

TagGroup == "group"
TagService == "service"
TagReplicas == "replicas"

\* serf.EventType values as serf prints them
EventMemberJoin == "member-join"
EventMemberLeave == "member-leave"
EventMemberFailed == "member-failed"
EventMemberUpdate == "member-update"
EventMemberReap == "member-reap"
EventUser == "user"

\* error values
Nil == "nil"
ErrParseAddrToHostPort == "ErrParseAddrToHostPort"
ErrParsePort == "ErrParsePort"
ErrCreate == "serf.Create error"
ErrHook == "hook error"
ErrJoin == "serf.Join error"

\* ------------------------------------------------------------------------
\* Strings as character sequences: net.SplitHostPort, strconv.Atoi,
\* strings.Split, fmt.Sprintf("%s:%d")
\* ------------------------------------------------------------------------
DigitChars == <<"0", "1", "2", "3", "4", "5", "6", "7", "8", "9">>

IsDigit(c) == \E d \in 1..10 : DigitChars[d] = c

DigitVal(c) == (CHOOSE d \in 1..10 : DigitChars[d] = c) - 1

\* positions of character c in s
IndexesOf(s, c) == {i \in 1..Len(s) : s[i] = c}

LastIndexOf(s, c) == IF IndexesOf(s, c) = {} THEN 0
                     ELSE CHOOSE i \in IndexesOf(s, c) : \A j \in IndexesOf(s, c) : j <= i

FirstIndexOf(s, c) == IF IndexesOf(s, c) = {} THEN 0
                      ELSE CHOOSE i \in IndexesOf(s, c) : \A j \in IndexesOf(s, c) : i <= j

\* net.SplitHostPort: [host, port, err]; the port starts after the last colon,
\* a host with a colon must be bracketed.
NetSplitHostPort(hostport) ==
    LET i == LastIndexOf(hostport, ":")
        bad == [host |-> <<>>, port |-> <<>>, err |-> "addrErr"]
    IN  IF i = 0 THEN bad
        ELSE IF hostport[1] = "["
        THEN LET end == FirstIndexOf(hostport, "]")
             IN  IF end = 0 \/ end + 1 # i THEN bad
                 ELSE IF IndexesOf(SubSeq(hostport, 2, Len(hostport)), "[") # {} THEN bad
                 ELSE IF IndexesOf(SubSeq(hostport, end + 1, Len(hostport)), "]") # {} THEN bad
                 ELSE [host |-> SubSeq(hostport, 2, end - 1),
                       port |-> SubSeq(hostport, i + 1, Len(hostport)), err |-> Nil]
        ELSE IF IndexesOf(SubSeq(hostport, 1, i - 1), ":") # {} THEN bad
        ELSE IF IndexesOf(hostport, "[") # {} \/ IndexesOf(hostport, "]") # {} THEN bad
        ELSE [host |-> SubSeq(hostport, 1, i - 1),
              port |-> SubSeq(hostport, i + 1, Len(hostport)), err |-> Nil]

\* A Go int is held as its decimal numeral: the digits without leading zeros,
\* "-" in front of a negative one (the values exceed the model checker's
\* integers).
MinusOne == <<"-", "1">>

\* math.MaxInt64 and the magnitude of math.MinInt64
MaxInt64 == <<"9", "2", "2", "3", "3", "7", "2", "0", "3", "6",
              "8", "5", "4", "7", "7", "5", "8", "0", "7">>
MinInt64Abs == <<"9", "2", "2", "3", "3", "7", "2", "0", "3", "6",
                 "8", "5", "4", "7", "7", "5", "8", "0", "8">>

\* the digits without their leading zeros, one digit at least
StripZeros(ds) ==
    LET nz == {k \in 1..Len(ds) : ds[k] # "0"}
        k == IF nz = {} THEN Len(ds) ELSE CHOOSE i \in nz : \A j \in nz : i <= j
    IN  SubSeq(ds, k, Len(ds))

\* a <= b for two numerals without sign and leading zeros
DigitsLeq(a, b) ==
    \/ Len(a) < Len(b)
    \/ /\ Len(a) = Len(b)
       /\ \/ a = b
          \/ \E k \in 1..Len(a) :
                /\ SubSeq(a, 1, k - 1) = SubSeq(b, 1, k - 1)
                /\ DigitVal(a[k]) < DigitVal(b[k])

\* math.MaxUint64
MaxUint64 == <<"1", "8", "4", "4", "6", "7", "4", "4", "0", "7",
               "3", "7", "0", "9", "5", "5", "1", "6", "1", "5">>

\* the digits at the front of ds, up to its first character that is no digit
DigitPrefix(ds) ==
    LET bad == {k \in 1..Len(ds) : ~IsDigit(ds[k])}
    IN  IF bad = {} THEN ds
        ELSE SubSeq(ds, 1, (CHOOSE i \in bad : \A j \in bad : i <= j) - 1)

\* strconv.Atoi: an optional sign, then the characters are read from the
\* left. Digits that exceed uint64 before any other character is met are a
\* range error with the nearest int64 bound; else a character that is no
\* digit, or no digit at all, is a syntax error with 0; else a value outside
\* int64 is a range error with the nearest bound
Atoi(p) ==
    LET signed == p # <<>> /\ p[1] \in {"+", "-"}
        neg == signed /\ p[1] = "-"
        ds == IF signed THEN Tail(p) ELSE p
        pre == DigitPrefix(ds)
        limit == IF neg THEN MinInt64Abs ELSE MaxInt64
        clamped == [val |-> IF neg THEN <<"-">> \o limit ELSE limit, err |-> "range"]
    IN  IF ds = <<>> THEN [val |-> <<"0">>, err |-> "syntax"]
        ELSE IF pre # <<>> /\ ~DigitsLeq(StripZeros(pre), MaxUint64) THEN clamped
        ELSE IF pre # ds THEN [val |-> <<"0">>, err |-> "syntax"]
        ELSE IF ~DigitsLeq(StripZeros(ds), limit) THEN clamped
        ELSE [val |-> IF neg /\ StripZeros(ds) # <<"0">> THEN <<"-">> \o StripZeros(ds)
                      ELSE StripZeros(ds),
              err |-> Nil]

\* Serf.splitHostPort
splitHostPort(addr) ==
    LET hp == NetSplitHostPort(addr)
        port == Atoi(hp.port)
    IN  IF hp.err # Nil THEN [host |-> <<>>, port |-> MinusOne, err |-> ErrParseAddrToHostPort]
        ELSE IF port.err # Nil THEN [host |-> <<>>, port |-> MinusOne, err |-> ErrParsePort]
        ELSE [host |-> hp.host, port |-> port.val, err |-> Nil]

\* strings.Split(s, ","): the pieces between the commas, empty pieces kept
RECURSIVE StringsSplit(_)
StringsSplit(s) ==
    LET i == FirstIndexOf(s, ",")
    IN  IF i = 0 THEN <<s>>
        ELSE <<SubSeq(s, 1, i - 1)>> \o StringsSplit(SubSeq(s, i + 1, Len(s)))

\* decimal digits of a natural number (%d)
RECURSIVE Itoa(_)
Itoa(n) == IF n < 10 THEN <<DigitChars[n + 1]>>
           ELSE Itoa(n \div 10) \o <<DigitChars[(n % 10) + 1]>>

HexChars == <<"0", "1", "2", "3", "4", "5", "6", "7", "8", "9", "a", "b", "c", "d", "e", "f">>

\* the hexadecimal digits of a natural number, no leading zeros
RECURSIVE HexItoa(_)
HexItoa(n) == IF n < 16 THEN <<HexChars[n + 1]>>
              ELSE HexItoa(n \div 16) \o <<HexChars[(n % 16) + 1]>>

\* two hexadecimal digits per byte
RECURSIVE HexString(_)
HexString(bs) ==
    IF bs = <<>> THEN <<>>
    ELSE <<HexChars[(Head(bs) \div 16) + 1], HexChars[(Head(bs) % 16) + 1]>> \o HexString(Tail(bs))

\* net.IP.To4: the four bytes of a 4-byte address or of a 16-byte
\* IPv4-mapped one, else nil
To4(ip) ==
    IF Len(ip) = 4 THEN ip
    ELSE IF /\ Len(ip) = 16
            /\ \A k \in 1..10 : ip[k] = 0
            /\ ip[11] = 255
            /\ ip[12] = 255
    THEN SubSeq(ip, 13, 16)
    ELSE <<>>

\* the 16-bit group g (0..7) of a 16-byte address
Group(ip, g) == ip[2 * g + 1] * 256 + ip[2 * g + 2]

\* the end of the run of zero groups that starts at group j
RECURSIVE ZeroRunEnd(_, _)
ZeroRunEnd(ip, j) == IF j >= 8 \/ Group(ip, j) # 0 THEN j ELSE ZeroRunEnd(ip, j + 1)

\* the scan for the first longest run of two or more zero groups from group
\* i on, best the run found before i
RECURSIVE ZeroRunFrom(_, _, _)
ZeroRunFrom(ip, i, best) ==
    IF i >= 8 THEN best
    ELSE IF /\ ZeroRunEnd(ip, i) - i >= 2
            /\ ZeroRunEnd(ip, i) - i > best.end - best.start
    THEN ZeroRunFrom(ip, i + 1, [start |-> i, end |-> ZeroRunEnd(ip, i)])
    ELSE ZeroRunFrom(ip, i + 1, best)

\* the run that is written "::": [start, end), an empty run past the last
\* group when there is none
ZeroRun(ip) == ZeroRunFrom(ip, 0, [start |-> 255, end |-> 255])

\* the groups from i on in hexadecimal, "::" for the run z
RECURSIVE String16(_, _, _)
String16(ip, i, z) ==
    IF i >= 8 THEN <<>>
    ELSE IF i = z.start
    THEN <<":", ":">> \o (IF z.end >= 8 THEN <<>>
                          ELSE HexItoa(Group(ip, z.end)) \o String16(ip, z.end + 1, z))
    ELSE (IF i > 0 THEN <<":">> ELSE <<>>) \o HexItoa(Group(ip, i)) \o String16(ip, i + 1, z)

\* net.IP.String (%s): "<nil>" for an empty IP, "?" and the bytes in
\* hexadecimal for a length other than 4 and 16, dotted decimal for an IPv4
\* address in either length, else the IPv6 text
IPString(ip) ==
    IF Len(ip) = 0 THEN <<"<", "n", "i", "l", ">">>
    ELSE IF Len(ip) # 4 /\ Len(ip) # 16 THEN <<"?">> \o HexString(ip)
    ELSE IF Len(To4(ip)) = 4
    THEN LET p4 == To4(ip)
         IN  Itoa(p4[1]) \o <<".">> \o Itoa(p4[2]) \o <<".">> \o Itoa(p4[3]) \o <<".">> \o Itoa(p4[4])
    ELSE String16(ip, 0, ZeroRun(ip))

\* fmt.Sprintf("%s:%d", member.Addr, member.Port)
SprintfAddr(ip, port) == IPString(ip) \o <<":">> \o Itoa(port)

\* ------------------------------------------------------------------------
\* Member (NewSimpleMember, SetTags, GetTags) and the registry (sync.Map)
\* ------------------------------------------------------------------------
NoTags == <<>>

NewSimpleMember(id, addr, advertise) ==
    [Id |-> id, Addr |-> addr, Advertise |-> advertise, Routers |-> <<>>, Tags |-> NoTags]

SetTags(m, tags) == [m EXCEPT !.Tags = tags]

GetTags(m) == m.Tags

\* variant: the advertise address is built without the port
Translate_HostOnlyAdvertise(peer) ==
    LET addr == SprintfAddr(peer.Addr, peer.Port)
    IN  SetTags(NewSimpleMember(peer.Name, addr, IPString(peer.Addr)), peer.Tags)

\* lines 143-145, 160-162, 177-179: the Member built from one peer descriptor
Translate(peer) ==
    LET addr == SprintfAddr(peer.Addr, peer.Port)
    IN  SetTags(NewSimpleMember(peer.Name, addr, addr), peer.Tags)

\* sync.Map: a function from the stored keys to the stored values
EmptyMap == <<>>

\* variant: an existing entry keeps the tag keys the new value does not set
Store_MergeTags(reg, k, v) ==
    [x \in DOMAIN reg \cup {k} |->
        IF x # k THEN reg[x]
        ELSE IF k \notin DOMAIN reg THEN v
        ELSE [v EXCEPT !.Tags = [t \in DOMAIN reg[k].Tags \cup DOMAIN v.Tags |->
                                    IF t \in DOMAIN v.Tags THEN v.Tags[t] ELSE reg[k].Tags[t]]]]

Store(reg, k, v) == [x \in DOMAIN reg \cup {k} |-> IF x = k THEN v ELSE reg[x]]

Delete(reg, k) == [x \in DOMAIN reg \ {k} |-> reg[x]]

Load(reg, k) == IF k \in DOMAIN reg THEN [ok |-> TRUE, val |-> reg[k]]
                ELSE [ok |-> FALSE, val |-> Nil]

NoEntry == Load(EmptyMap, "")

\* variant: fail-closed, a rejected member is not stored
StoreAfterHookError_FailClosed(reg, latest) == reg

\* the Store of a member whose join/update hook returned an error (lines 155, 172)
StoreAfterHookError(reg, latest) == Store(reg, latest.Id, latest)

\* variant: only a member that is not yet known is stored after the hook
StoreAfterHookOk_OnlyNew(reg, latest) ==
    IF latest.Id \in DOMAIN reg THEN reg ELSE Store(reg, latest.Id, latest)

\* the Store of a member whose join/update hook returned nil (lines 149, 166)
StoreAfterHookOk(reg, latest) == Store(reg, latest.Id, latest)

\* variant: LoadOrStore, an existing entry is kept
StoreNoHandler_KeepExisting(reg, latest) ==
    IF latest.Id \in DOMAIN reg THEN reg ELSE Store(reg, latest.Id, latest)

\* the Store of a member when no Handler is installed (lines 155, 172)
StoreNoHandler(reg, latest) == Store(reg, latest.Id, latest)

\* variant: the entry is kept
RemoveLeft_Keep(reg, latest) == reg

\* the Delete of a member that left or failed (line 181)
RemoveLeft(reg, latest) == Delete(reg, latest.Id)

\* ------------------------------------------------------------------------
\* Handler: nil, or an implementation of the three hooks
\* ------------------------------------------------------------------------
NoHandler == "nil"
\* an implementation whose hooks all return nil, one whose hooks all return an error
Handlers == {"accept", "reject"}

HookResult(h, latest) == IF h = "accept" THEN Nil ELSE ErrHook

\* an implementation whose hooks never return
BlockingHandler == "block"

HookReturns(h) == h # BlockingHandler

AllHandlers == Handlers \cup {BlockingHandler}

\* ------------------------------------------------------------------------
\* Inputs: the local member given to NewSerf, what the transport reports
\* ------------------------------------------------------------------------
AddrInputs ==
    { <<"h", ":", "8", "0">>,          \* host:port
      <<"h", "8", "0">>,               \* no port separator
      <<"h", ":", "x">>,               \* non-numeric port
      <<":", ":", "1", ":", "8", "0">>, \* unbracketed IPv6
      <<"h", ":">> \o [k \in 1..20 |-> "9"], \* port beyond int64
      <<"h", ":">> \o [k \in 1..20 |-> "9"] \o <<"x">> \* beyond uint64, then no digit
    }

RoutersInputs == { <<>>, <<"a", ",", "b">> }

LocalMembers ==
    { [Id |-> "p1", Addr |-> a, Advertise |-> d, Routers |-> r,
       Tags |-> [k \in {TagGroup} |-> "a"]] :
        a \in AddrInputs, d \in AddrInputs, r \in RoutersInputs }

TagsA == [k \in {TagGroup, TagService} |-> IF k = TagGroup THEN "a" ELSE "s"]
TagsB == [k \in {TagGroup} |-> "b"]
TagsC == [k \in {TagGroup, TagReplicas} |-> IF k = TagGroup THEN "a" ELSE "2"]

\* fe80::1 and, in the 16-byte form net.ParseIP gives, 192.168.1.20
IPv6LinkLocal == <<254, 128, 0, 0, 0, 0, 0, 0, 0, 0, 0, 0, 0, 0, 0, 1>>
IPv4Mapped == <<0, 0, 0, 0, 0, 0, 0, 0, 0, 0, 255, 255, 192, 168, 1, 20>>

\* serf.Member descriptors the transport can report: a 4-byte IPv4 address,
\* an IPv6 address, a 16-byte IPv4 address
Peers ==
    { [Name |-> "p1", Addr |-> <<10, 0, 0, 1>>, Port |-> 7946, Tags |-> TagsA],
      [Name |-> "p1", Addr |-> IPv6LinkLocal, Port |-> 7950, Tags |-> TagsB],
      [Name |-> "p2", Addr |-> IPv4Mapped, Port |-> 80, Tags |-> TagsC] }

\* one member event carries each node at most once (serf coalesces by node name)
Batches ==
    { b \in UNION { [1..n -> Peers] : n \in 1..MaxBatch } :
        \A i, j \in 1..Len(b) : b[i].Name = b[j].Name => i = j }

MemberEventTypes ==
    {EventMemberJoin, EventMemberUpdate, EventMemberLeave, EventMemberFailed, EventMemberReap}

\* serf.Event values: member events, and a user event that carries no members
TransportEvents ==
    { [Type |-> t, Members |-> b] : t \in MemberEventTypes, b \in Batches }
        \cup { [Type |-> EventUser, Members |-> <<>>] }

NoEvent == [Type |-> "none", Members |-> <<>>]

\* ------------------------------------------------------------------------
\* State
\* ------------------------------------------------------------------------
VARIABLES
    member,      \* s.member: the local member given to NewSerf
    events,      \* s.events: index into chans of the current channel, 0 = nil
    serf,        \* s.serf: index into transports of the current instance, 0 = nil
    handler,     \* s.handler
    members,     \* s.members
    chans,       \* the channels made so far: [buf, closed]
    transports,  \* the serf instances created so far: their config and liveness
    loops,       \* the Loop goroutines launched so far
    startRet,    \* what the last Start call returned, "none" before any call,
                 \* "running" while the call has not returned
    joinReqs,    \* the join requests the transport received
    arrived,     \* history: per channel, every event sent on it, in order
    hSeq,        \* SpecHyper: the events fed so far
    hRegs,       \* SpecHyper: per handler mode, the registry after each event
    caller,      \* the goroutine that calls Start and Stop: its position
                 \* ("idle" between two calls, "panic" once a Stop or a Join
                 \* call of any goroutine has panicked)
    stopRet,     \* history: how each Stop call ended
    joinRet,     \* history: what each Join call returned
    reader       \* the goroutine that calls Members(): the Range in progress

progVars == <<member, events, serf, handler, members, chans, transports, loops,
              startRet, joinReqs, arrived, caller, stopRet, joinRet, reader>>
hyperVars == <<hSeq, hRegs>>
vars == <<member, events, serf, handler, members, chans, transports, loops,
          startRet, joinReqs, arrived, hSeq, hRegs, caller, stopRet, joinRet, reader>>

Names == {p.Name : p \in Peers}

\* a Loop goroutine: the channel it ranges over, its position, the event in
\* flight (kept after the event until the next receive), the index of the
\* member in flight, the handler value the hook was called on, the number of
\* events received (history), the members of the event done so far and how
\* (history), the hook calls and the registry entry at the start of the member
\* in flight (history)
NewLoop == [ch |-> 0, pc |-> "begin", e |-> NoEvent, i |-> 0, h |-> NoHandler,
            taken |-> 0, done |-> <<>>, hooks |-> 0, prev |-> NoEntry]

\* the goroutine of Members(): its position ("idle" before the first call,
\* "range" inside s.members.Range, "done" once the call returned), the keys the
\* Range has come upon, the slice nodes, the number of calls (history), the
\* Loop goroutines launched when the call began, and whether all of them had
\* returned then and at every key since (history)
NoCall == [pc |-> "idle", seen |-> {}, out |-> <<>>, calls |-> 0, launched |-> 0, quiet |-> FALSE]

\* NewSerf(local)
Init ==
    /\ member \in LocalMembers
    /\ events = 0
    /\ serf = 0
    /\ handler = NoHandler
    /\ members = EmptyMap
    /\ chans = <<>>
    /\ transports = <<>>
    /\ loops = <<>>
    /\ startRet = "none"
    /\ joinReqs = <<>>
    /\ arrived = <<>>
    /\ hSeq = <<>>
    /\ hRegs = <<>>
    /\ caller = "idle"
    /\ stopRet = <<>>
    /\ joinRet = <<>>
    /\ reader = NoCall

\* a panic in any goroutine ends the process
Crashed == caller = "panic" \/ \E l \in 1..Len(loops) : loops[l].pc = "panic"

\* ------------------------------------------------------------------------
\* Facade
\* ------------------------------------------------------------------------
\* LocalMember(): the entry under the local id, or nil
LocalMember == LET r == Load(members, member.Id) IN IF r.ok THEN r.val ELSE Nil

\* the values a sync.Map holds
Entries(reg) == {reg[k] : k \in DOMAIN reg}

\* SetHandler(h), from any goroutine
SetHandler(h) ==
    /\ ~Crashed
    /\ handler' = h
    /\ UNCHANGED <<reader, member, events, serf, members, chans, transports, loops,
                   startRet, joinReqs, arrived, hSeq, hRegs,
                   caller, stopRet, joinRet>>

\* variant: the join asks for the old events to be replayed
JoinRequest_Replay(t, seeds, err) ==
    [serf |-> t, seeds |-> seeds, ignoreOld |-> FALSE, err |-> err]

\* s.serf.Join(members, true) as serf instance t receives it; err is what the
\* instance answers
JoinRequest(t, seeds, err) ==
    [serf |-> t, seeds |-> seeds, ignoreOld |-> TRUE, err |-> err]

\* what serf instance t can answer to a join: success or an error while it is
\* alive, an error once it is shut down
JoinResults(t) == IF transports[t].alive THEN {Nil, ErrJoin} ELSE {ErrJoin}

\* variant: a failed join is tried a second time
JoinCall_Retry(reqs, t, seeds, err) ==
    IF err = Nil
    THEN [reqs |-> Append(reqs, JoinRequest(t, seeds, err)), ret |-> err]
    ELSE [reqs |-> Append(Append(reqs, JoinRequest(t, seeds, err)), JoinRequest(t, seeds, err)),
          ret |-> err]

\* variant: the error of the join is dropped
JoinCall_DropError(reqs, t, seeds, err) ==
    [reqs |-> Append(reqs, JoinRequest(t, seeds, err)), ret |-> Nil]

\* lines 121-122: one s.serf.Join call; its error is what Join returns
JoinCall(reqs, t, seeds, err) ==
    [reqs |-> Append(reqs, JoinRequest(t, seeds, err)), ret |-> err]

\* Join(members), from any goroutine: the code has no guard. On a nil s.serf
\* (no Start yet, a Start that has not assigned s.serf yet, a failed
\* serf.Create) the call dereferences a nil pointer and the panic ends the
\* process, the goroutine of Start and Stop with it
Join(seeds, err) ==
    /\ ~Crashed
    /\ IF serf = 0
       THEN /\ caller' = "panic"
            /\ UNCHANGED <<joinReqs, joinRet>>
       ELSE /\ err \in JoinResults(serf)
            /\ joinReqs' = JoinCall(joinReqs, serf, seeds, err).reqs
            /\ joinRet' = Append(joinRet, JoinCall(joinReqs, serf, seeds, err).ret)
            /\ UNCHANGED caller
    /\ UNCHANGED <<reader, member, events, serf, handler, members, chans, transports, loops,
                   startRet, arrived, hSeq, hRegs, stopRet>>

\* the serf.Config Start builds (lines 78-104)
StartConfig(adv, bind, ch) ==
    [AdvertiseAddr |-> adv.host, AdvertisePort |-> adv.port,
     BindAddr |-> bind.host, BindPort |-> bind.port,
     EventCh |-> ch, NodeName |-> member.Id, Tags |-> GetTags(member), alive |-> TRUE]

\* what Start launches once serf.Create succeeded: the Loop goroutine
LaunchLoop(ls) == Append(ls, NewLoop)

\* Start() lines 67-87: the channel is made and the two addresses are parsed;
\* a parse error is returned, else the call goes on to serf.Create
StartBegin ==
    LET ch == Len(chans) + 1
        adv == splitHostPort(member.Advertise)
        bind == splitHostPort(member.Addr)
    IN  /\ ~Crashed
        /\ caller = "idle"
        /\ chans' = Append(chans, [buf |-> <<>>, closed |-> FALSE])
        /\ arrived' = Append(arrived, <<>>)
        /\ events' = ch
        /\ IF adv.err # Nil
           THEN startRet' = adv.err /\ UNCHANGED caller
           ELSE IF bind.err # Nil
           THEN startRet' = bind.err /\ UNCHANGED caller
           ELSE startRet' = "running" /\ caller' = "start_create"
        /\ UNCHANGED <<reader, member, serf, handler, members, transports, loops,
                       joinReqs, hSeq, hRegs, stopRet, joinRet>>

\* variant: the Loop goroutine is launched before serf.Create is called
StartCreate_LoopBeforeCreate(createOk) ==
    /\ ~Crashed
    /\ caller = "start_create"
    /\ loops' = LaunchLoop(loops)
    /\ IF createOk
       THEN /\ transports' = Append(transports,
                                 StartConfig(splitHostPort(member.Advertise),
                                             splitHostPort(member.Addr), events))
            /\ caller' = "start_launch"
            /\ UNCHANGED <<serf, startRet>>
       ELSE /\ serf' = 0
            /\ startRet' = ErrCreate
            /\ caller' = "idle"
            /\ UNCHANGED transports
    /\ UNCHANGED <<reader, member, events, handler, members, chans,
                   joinReqs, arrived, hSeq, hRegs, stopRet, joinRet>>

\* Start() line 106, the call of serf.Create; createOk is whether it succeeds.
\* The instance it creates runs, and can send on EventCh, before the call
\* has returned and s.serf is assigned; a failed call leaves nothing behind,
\* s.serf becomes nil and Start returns the error (lines 106-109)
StartCreate(createOk) ==
    /\ ~Crashed
    /\ caller = "start_create"
    /\ IF createOk
       THEN /\ transports' = Append(transports,
                                 StartConfig(splitHostPort(member.Advertise),
                                             splitHostPort(member.Addr), events))
            /\ caller' = "start_launch"
            /\ UNCHANGED <<serf, startRet>>
       ELSE /\ serf' = 0
            /\ startRet' = ErrCreate
            /\ caller' = "idle"
            /\ UNCHANGED transports
    /\ UNCHANGED <<reader, member, events, handler, members, chans, loops,
                   joinReqs, arrived, hSeq, hRegs, stopRet, joinRet>>

\* Start() lines 106-112 after serf.Create succeeded: s.serf is assigned and
\* the Loop goroutine is launched. With seeds configured the call goes on in
\* StartJoin, else it returns nil.
StartLaunch ==
    /\ ~Crashed
    /\ caller = "start_launch"
    /\ serf' = Len(transports)
    /\ loops' = LaunchLoop(loops)
    /\ IF Len(member.Routers) > 0
       THEN caller' = "start_join" /\ UNCHANGED startRet
       ELSE caller' = "idle" /\ startRet' = Nil
    /\ UNCHANGED <<reader, member, events, handler, members, chans, transports,
                   joinReqs, arrived, hSeq, hRegs, stopRet, joinRet>>

\* variant: Start returns the error of the join
StartJoin_ReturnError(err) ==
    /\ ~Crashed
    /\ caller = "start_join"
    /\ err \in JoinResults(serf)
    /\ joinReqs' = JoinCall(joinReqs, serf, StringsSplit(member.Routers), err).reqs
    /\ startRet' = JoinCall(joinReqs, serf, StringsSplit(member.Routers), err).ret
    /\ caller' = "idle"
    /\ UNCHANGED <<reader, member, events, serf, handler, members, chans, transports, loops,
                   arrived, hSeq, hRegs, stopRet, joinRet>>

\* Start() lines 113-117: the seeds are split and joined, the result of the
\* join is dropped and Start returns nil
StartJoin(err) ==
    /\ ~Crashed
    /\ caller = "start_join"
    /\ err \in JoinResults(serf)
    /\ joinReqs' = JoinCall(joinReqs, serf, StringsSplit(member.Routers), err).reqs
    /\ startRet' = Nil
    /\ caller' = "idle"
    /\ UNCHANGED <<reader, member, events, serf, handler, members, chans, transports, loops,
                   arrived, hSeq, hRegs, stopRet, joinRet>>

\* how s.events stands when Stop reaches close(s.events)
ChanState == IF events = 0 THEN "nil"
             ELSE IF chans[events].closed THEN "closed" ELSE "open"

\* the events buffered in s.events (history of Stop)
Pending == IF events = 0 THEN 0 ELSE Len(chans[events].buf)

\* variant: the transport is left running
StopShutdown_Skip ==
    /\ ~Crashed
    /\ caller = "idle"
    /\ caller' = "stop_close"
    /\ UNCHANGED <<reader, member, events, serf, handler, members, chans, transports, loops,
                   startRet, joinReqs, arrived, hSeq, hRegs, stopRet, joinRet>>

\* Stop() lines 61-63: the serf instance, if any, is shut down
StopShutdown ==
    /\ ~Crashed
    /\ caller = "idle"
    /\ transports' = IF serf # 0 THEN [transports EXCEPT ![serf].alive = FALSE]
                     ELSE transports
    /\ caller' = "stop_close"
    /\ UNCHANGED <<reader, member, events, serf, handler, members, chans, loops,
                   startRet, joinReqs, arrived, hSeq, hRegs, stopRet, joinRet>>

\* variant: Stop returns when there is no open channel to close
StopClose_Guarded ==
    /\ ~Crashed
    /\ caller = "stop_close"
    /\ chans' = IF ChanState = "open" THEN [chans EXCEPT ![events].closed = TRUE] ELSE chans
    /\ caller' = "idle"
    /\ stopRet' = Append(stopRet, [chan |-> ChanState, out |-> "returned", pending |-> Pending])
    /\ UNCHANGED <<reader, member, events, serf, handler, members, transports, loops,
                   startRet, joinReqs, arrived, hSeq, hRegs, joinRet>>

\* variant: Stop also empties the registry
StopClose_ClearRegistry ==
    /\ ~Crashed
    /\ caller = "stop_close"
    /\ IF ChanState = "open"
       THEN /\ chans' = [chans EXCEPT ![events].closed = TRUE]
            /\ members' = EmptyMap
            /\ caller' = "idle"
            /\ stopRet' = Append(stopRet, [chan |-> ChanState, out |-> "returned", pending |-> Pending])
       ELSE /\ caller' = "panic"
            /\ stopRet' = Append(stopRet, [chan |-> ChanState, out |-> "panic", pending |-> Pending])
            /\ UNCHANGED <<chans, members>>
    /\ UNCHANGED <<reader, member, events, serf, handler, transports, loops,
                   startRet, joinReqs, arrived, hSeq, hRegs, joinRet>>

\* Stop() line 64: close(s.events) panics on a nil and on a closed channel
StopClose ==
    /\ ~Crashed
    /\ caller = "stop_close"
    /\ IF ChanState = "open"
       THEN /\ chans' = [chans EXCEPT ![events].closed = TRUE]
            /\ caller' = "idle"
            /\ stopRet' = Append(stopRet, [chan |-> ChanState, out |-> "returned", pending |-> Pending])
       ELSE /\ caller' = "panic"
            /\ stopRet' = Append(stopRet, [chan |-> ChanState, out |-> "panic", pending |-> Pending])
            /\ UNCHANGED chans
    /\ UNCHANGED <<reader, member, events, serf, handler, members, transports, loops,
                   startRet, joinReqs, arrived, hSeq, hRegs, joinRet>>

\* ------------------------------------------------------------------------
\* Transport: a live serf instance sends an event on its EventCh
\* ------------------------------------------------------------------------
\* the peer descriptors an event carries, one for an event without members
Cost(e) == IF e.Members = <<>> THEN 1 ELSE Len(e.Members)

RECURSIVE TotalCost(_)
TotalCost(evs) == IF evs = <<>> THEN 0 ELSE Cost(Head(evs)) + TotalCost(Tail(evs))

RECURSIVE TotalPeers(_)
TotalPeers(evs) == IF evs = <<>> THEN 0 ELSE Len(Head(evs).Members) + TotalPeers(Tail(evs))

RECURSIVE Flatten(_)
Flatten(seqs) == IF seqs = <<>> THEN <<>> ELSE Head(seqs) \o Flatten(Tail(seqs))

\* the send blocks while the channel is full
Send(t, e) ==
    LET c == transports[t].EventCh
    IN  /\ ~Crashed
        /\ transports[t].alive
        /\ ~chans[c].closed
        /\ Len(chans[c].buf) < EventChCap
        /\ chans' = [chans EXCEPT ![c].buf = Append(@, e)]
        /\ arrived' = [arrived EXCEPT ![c] = Append(@, e)]
        /\ UNCHANGED <<reader, member, events, serf, handler, members, transports, loops,
                       startRet, joinReqs, hSeq, hRegs,
                       caller, stopRet, joinRet>>

\* ------------------------------------------------------------------------
\* Loop (lines 138-190), one goroutine per successful Start
\* ------------------------------------------------------------------------
UpsertTypes == {EventMemberJoin, EventMemberUpdate}

\* variant: a reap event is handled like a leave
RemoveTypes_WithReap == {EventMemberLeave, EventMemberFailed, EventMemberReap}

RemoveTypes == {EventMemberLeave, EventMemberFailed}
HandledTypes == UpsertTypes \cup RemoveTypes

\* variant: the newest buffered event is taken
Receive_Newest(buf) == buf[Len(buf)]

\* the channel receive of `range s.events`: the oldest buffered event
Receive(buf) == Head(buf)

AfterReceive(buf) == Tail(buf)

\* the index of the member the `for _, member := range Members` takes after i
NextIndex(i) == i + 1

\* the member in flight of loop record lp, and its translation
PeerOf(lp) == lp.e.Members[lp.i]

\* the translation of every descriptor the transport reports
Translated == [p \in Peers |-> Translate(p)]

TranslateOf(peer) == IF peer \in Peers THEN Translated[peer] ELSE Translate(peer)

LatestOf(lp) == TranslateOf(PeerOf(lp))

\* the loop record after the member in flight is done; hook is "none" when no
\* hook ran, else the error value the hook returned
Finished(lp, hook) ==
    LET d == Append(lp.done, [peer |-> PeerOf(lp), hook |-> hook, hooks |-> lp.hooks])
        n == NextIndex(lp.i)
        cleared == [lp EXCEPT !.done = d, !.hooks = 0, !.h = NoHandler, !.prev = NoEntry]
    IN  IF n >= 1 /\ n <= Len(lp.e.Members)
        THEN [cleared EXCEPT !.pc = "member", !.i = n]
        ELSE [cleared EXCEPT !.pc = "recv"]

\* the goroutine starts: `range s.events` evaluates s.events once
LoopBegin(l) ==
    /\ ~Crashed
    /\ loops[l].pc = "begin"
    /\ loops' = [loops EXCEPT ![l].ch = events, ![l].pc = "recv"]
    /\ UNCHANGED <<reader, member, events, serf, handler, members, chans, transports,
                   startRet, joinReqs, arrived, hSeq, hRegs,
                       caller, stopRet, joinRet>>

\* variant: the hook runs in a goroutine of its own and the Loop goes on
\* receiving while it has not returned
LoopReceive_DuringHook(l) ==
    LET lp == loops[l]
        c == lp.ch
        e == Receive(chans[c].buf)
    IN  /\ ~Crashed
        /\ lp.pc \in {"recv", "hook"}
        /\ c # 0
        /\ chans[c].buf # <<>>
        /\ chans' = [chans EXCEPT ![c].buf = AfterReceive(@)]
        /\ loops' = [loops EXCEPT ![l] =
                        [lp EXCEPT !.e = e, !.done = <<>>, !.hooks = 0, !.taken = @ + 1,
                                   !.h = NoHandler, !.prev = NoEntry,
                                   !.i = IF e.Type \in HandledTypes /\ e.Members # <<>>
                                         THEN 1 ELSE 0,
                                   !.pc = IF e.Type \in HandledTypes /\ e.Members # <<>>
                                          THEN "member" ELSE "recv"]]
        /\ UNCHANGED <<reader, member, events, serf, handler, members, transports,
                       startRet, joinReqs, arrived, hSeq, hRegs,
                       caller, stopRet, joinRet>>

\* line 139-140: receive the next event and switch on its type
LoopReceive(l) ==
    LET lp == loops[l]
        c == lp.ch
        e == Receive(chans[c].buf)
    IN  /\ ~Crashed
        /\ lp.pc = "recv"
        /\ c # 0
        /\ chans[c].buf # <<>>
        /\ chans' = [chans EXCEPT ![c].buf = AfterReceive(@)]
        /\ loops' = [loops EXCEPT ![l] =
                        [lp EXCEPT !.e = e, !.done = <<>>, !.hooks = 0, !.taken = @ + 1,
                                   !.i = IF e.Type \in HandledTypes /\ e.Members # <<>>
                                         THEN 1 ELSE 0,
                                   !.pc = IF e.Type \in HandledTypes /\ e.Members # <<>>
                                          THEN "member" ELSE "recv"]]
        /\ UNCHANGED <<reader, member, events, serf, handler, members, transports,
                       startRet, joinReqs, arrived, hSeq, hRegs,
                       caller, stopRet, joinRet>>

\* variant: the member is stored before the hook is called
LoopUpsert_StoreFirst(l) ==
    LET lp == loops[l]
        latest == LatestOf(lp)
    IN  /\ ~Crashed
        /\ lp.pc = "member"
        /\ lp.e.Type \in UpsertTypes
        /\ members' = StoreNoHandler(members, latest)
        /\ IF handler = NoHandler
           THEN /\ loops' = [loops EXCEPT ![l] = Finished(lp, "none")]
           ELSE /\ loops' = [loops EXCEPT ![l].pc = "call",
                                          ![l].prev = Load(members, latest.Id)]
        /\ UNCHANGED <<reader, member, events, serf, handler, chans, transports,
                       startRet, joinReqs, arrived, hSeq, hRegs,
                       caller, stopRet, joinRet>>

\* lines 142-147 and 155, 159-164 and 172: translate the member, test the
\* handler for nil; without a handler store the member
LoopUpsert(l) ==
    LET lp == loops[l]
        latest == LatestOf(lp)
    IN  /\ ~Crashed
        /\ lp.pc = "member"
        /\ lp.e.Type \in UpsertTypes
        /\ IF handler = NoHandler
           THEN /\ members' = StoreNoHandler(members, latest)
                /\ loops' = [loops EXCEPT ![l] = Finished(lp, "none")]
           ELSE /\ loops' = [loops EXCEPT ![l].pc = "call",
                                          ![l].prev = Load(members, latest.Id)]
                /\ UNCHANGED members
        /\ UNCHANGED <<reader, member, events, serf, handler, chans, transports,
                       startRet, joinReqs, arrived, hSeq, hRegs,
                       caller, stopRet, joinRet>>

\* variant: with a handler installed the entry is not deleted before the hook
LoopRemove_HookFirst(l) ==
    LET lp == loops[l]
        latest == LatestOf(lp)
    IN  /\ ~Crashed
        /\ lp.pc = "member"
        /\ lp.e.Type \in RemoveTypes
        /\ IF handler = NoHandler
           THEN /\ members' = RemoveLeft(members, latest)
                /\ loops' = [loops EXCEPT ![l] = Finished(lp, "none")]
           ELSE /\ loops' = [loops EXCEPT ![l].pc = "call",
                                          ![l].prev = Load(members, latest.Id)]
                /\ UNCHANGED members
        /\ UNCHANGED <<reader, member, events, serf, handler, chans, transports,
                       startRet, joinReqs, arrived, hSeq, hRegs,
                       caller, stopRet, joinRet>>

\* lines 176-182: translate the member, delete its entry, test the handler
LoopRemove(l) ==
    LET lp == loops[l]
        latest == LatestOf(lp)
    IN  /\ ~Crashed
        /\ lp.pc = "member"
        /\ lp.e.Type \in RemoveTypes
        /\ members' = RemoveLeft(members, latest)
        /\ IF handler = NoHandler
           THEN /\ loops' = [loops EXCEPT ![l] = Finished(lp, "none")]
           ELSE /\ loops' = [loops EXCEPT ![l].pc = "call",
                                          ![l].prev = Load(members, latest.Id)]
        /\ UNCHANGED <<reader, member, events, serf, handler, chans, transports,
                       startRet, joinReqs, arrived, hSeq, hRegs,
                       caller, stopRet, joinRet>>

\* lines 148, 165, 183: s.handler is read again for the call; the method call
\* on a nil interface panics
LoopCallHook(l) ==
    LET lp == loops[l]
    IN  /\ ~Crashed
        /\ lp.pc = "call"
        /\ loops' = IF handler = NoHandler
                    THEN [loops EXCEPT ![l].pc = "panic"]
                    ELSE [loops EXCEPT ![l].pc = "hook", ![l].h = handler,
                                       ![l].hooks = @ + 1]
        /\ UNCHANGED <<reader, member, events, serf, handler, members, chans, transports,
                       startRet, joinReqs, arrived, hSeq, hRegs,
                       caller, stopRet, joinRet>>

\* lines 148-155, 165-172: OnMemberJoin / OnMemberUpdate returns; the member
\* is stored on either branch
LoopUpsertReturn(l) ==
    LET lp == loops[l]
        latest == LatestOf(lp)
        err == HookResult(lp.h, latest)
    IN  /\ ~Crashed
        /\ lp.pc = "hook"
        /\ HookReturns(lp.h)
        /\ lp.e.Type \in UpsertTypes
        /\ members' = IF err = Nil THEN StoreAfterHookOk(members, latest)
                      ELSE StoreAfterHookError(members, latest)
        /\ loops' = [loops EXCEPT ![l] = Finished(lp, err)]
        /\ UNCHANGED <<reader, member, events, serf, handler, chans, transports,
                       startRet, joinReqs, arrived, hSeq, hRegs,
                       caller, stopRet, joinRet>>

\* lines 183-185: OnMemberLeave returns; its error is only logged
LoopRemoveReturn(l) ==
    LET lp == loops[l]
        err == HookResult(lp.h, LatestOf(lp))
    IN  /\ ~Crashed
        /\ lp.pc = "hook"
        /\ HookReturns(lp.h)
        /\ lp.e.Type \in RemoveTypes
        /\ loops' = [loops EXCEPT ![l] = Finished(lp, err)]
        /\ UNCHANGED <<reader, member, events, serf, handler, members, chans, transports,
                       startRet, joinReqs, arrived, hSeq, hRegs,
                       caller, stopRet, joinRet>>

\* variant: the range ends as soon as the channel is closed
LoopStop_OnClose(l) ==
    LET lp == loops[l]
        c == lp.ch
    IN  /\ ~Crashed
        /\ lp.pc = "recv"
        /\ c # 0
        /\ chans[c].closed
        /\ loops' = [loops EXCEPT ![l].pc = "stopped"]
        /\ UNCHANGED <<reader, member, events, serf, handler, members, chans, transports,
                       startRet, joinReqs, arrived, hSeq, hRegs,
                       caller, stopRet, joinRet>>

\* line 139: the channel is closed and drained, the range ends and Loop returns
LoopStop(l) ==
    LET lp == loops[l]
        c == lp.ch
    IN  /\ ~Crashed
        /\ lp.pc = "recv"
        /\ c # 0
        /\ chans[c].closed
        /\ chans[c].buf = <<>>
        /\ loops' = [loops EXCEPT ![l].pc = "stopped"]
        /\ UNCHANGED <<reader, member, events, serf, handler, members, chans, transports,
                       startRet, joinReqs, arrived, hSeq, hRegs,
                       caller, stopRet, joinRet>>

\* a step of one of the Loop goroutines while its channel is open
Loop ==
    \/ \E l \in 1..Len(loops) : LoopBegin(l)
    \/ \E l \in 1..Len(loops) : LoopReceive(l)
    \/ \E l \in 1..Len(loops) : LoopUpsert(l)
    \/ \E l \in 1..Len(loops) : LoopRemove(l)
    \/ \E l \in 1..Len(loops) : LoopCallHook(l)
    \/ \E l \in 1..Len(loops) : LoopUpsertReturn(l)
    \/ \E l \in 1..Len(loops) : LoopRemoveReturn(l)

\* every Loop goroutine launched has returned
AllStopped == loops # <<>> /\ \A l \in 1..Len(loops) : loops[l].pc = "stopped"

\* ------------------------------------------------------------------------
\* Members() (lines 47-54), from a goroutine of its own. sync.Map.Range
\* holds no lock over the visit: it comes upon the keys one at a time, in no
\* particular order, while the Loop goes on storing and deleting, and what it
\* hands to the callback for a key is the entry the key has at that moment
\* ------------------------------------------------------------------------
\* the keys a Range can come upon
Keys == Names

\* lines 48-49: the slice is made and the Range begins
MembersBegin ==
    /\ ~Crashed
    /\ reader.pc # "range"
    /\ reader' = [pc |-> "range", seen |-> {}, out |-> <<>>, calls |-> reader.calls + 1,
                  launched |-> Len(loops), quiet |-> AllStopped]
    /\ UNCHANGED <<member, events, serf, handler, members, chans, transports, loops,
                   startRet, joinReqs, arrived, hSeq, hRegs, caller, stopRet, joinRet>>

\* lines 49-53: the Range comes upon key k; when the key has an entry the
\* callback appends it and returns true. After the last key the Range ends and
\* Members returns the slice
MembersVisit(k) ==
    /\ ~Crashed
    /\ reader.pc = "range"
    /\ k \in Keys \ reader.seen
    /\ reader' = [reader EXCEPT
                    !.seen = @ \cup {k},
                    !.out = IF Load(members, k).ok THEN Append(@, Load(members, k).val) ELSE @,
                    !.quiet = @ /\ AllStopped /\ Len(loops) = reader.launched,
                    !.pc = IF reader.seen \cup {k} = Keys THEN "done" ELSE "range"]
    /\ UNCHANGED <<member, events, serf, handler, members, chans, transports, loops,
                   startRet, joinReqs, arrived, hSeq, hRegs, caller, stopRet, joinRet>>

\* ------------------------------------------------------------------------
\* Specification: a Serf started at most once, its transport, its Loop and
\* SetHandler calls from any goroutine
\* ------------------------------------------------------------------------
StartOnce == startRet = "none" /\ StartBegin

StartCreates == \E createOk \in BOOLEAN : StartCreate(createOk)

StartJoins == \E err \in {Nil, ErrJoin} : StartJoin(err)

SetHandlers == \E h \in Handlers \cup {NoHandler} : SetHandler(h)

Transport ==
    \E t \in 1..Len(transports) : \E e \in TransportEvents :
        /\ Len(Flatten(arrived)) < MaxSent
        /\ TotalPeers(Flatten(arrived)) + Len(e.Members) <= MaxSent
        /\ Send(t, e)

Next ==
    \/ StartOnce
    \/ StartCreates
    \/ StartLaunch
    \/ StartJoins
    \/ SetHandlers
    \/ Transport
    \/ Loop

Spec == Init /\ [][Next]_vars

\* ------------------------------------------------------------------------
\* SpecSeq: the same program with a well-formed local member, fed longer
\* sequences of single-member join/update/leave/failed events
\* ------------------------------------------------------------------------
LocalSeq == [Id |-> "p1", Addr |-> <<"h", ":", "8", "0">>, Advertise |-> <<"h", ":", "8", "0">>,
             Routers |-> <<>>, Tags |-> [k \in {TagGroup} |-> "a"]]

SeqEvents == { e \in TransportEvents : e.Type \in HandledTypes /\ Len(e.Members) = 1 }

InitSeq == Init /\ member = LocalSeq

TransportSeq ==
    \E t \in 1..Len(transports) : \E e \in SeqEvents :
        /\ Len(Flatten(arrived)) < MaxSeqSent
        /\ Send(t, e)

SetAnyHandler == \E h \in AllHandlers \cup {NoHandler} : SetHandler(h)

NextSeq ==
    \/ StartOnce
    \/ StartCreates
    \/ StartLaunch
    \/ SetAnyHandler
    \/ TransportSeq
    \/ Loop

SpecSeq == InitSeq /\ [][NextSeq]_vars

\* ------------------------------------------------------------------------
\* SpecLife: any sequence of Start, Stop and Join calls from one goroutine,
\* with SetHandler calls, the transports and the Loop goroutines running
\* concurrently
\* ------------------------------------------------------------------------
LocalWithSeeds == [LocalSeq EXCEPT !.Routers = <<"a", ",", "b">>]

SeedInputs == { <<"c">> }

InitLife == Init /\ member = LocalWithSeeds

\* the Start, Stop and Join calls made and the events sent so far
Calls == Len(chans) + Len(stopRet) + Len(joinRet) + (IF caller = "stop_close" THEN 1 ELSE 0)
            + Len(Flatten(arrived))

StartAny == Calls < MaxCalls /\ StartBegin

StopAny == Calls < MaxCalls /\ StopShutdown

\* a Join call of the goroutine that calls Start and Stop, between two of
\* its calls
JoinAny ==
    /\ Calls < MaxCalls
    /\ caller = "idle"
    /\ \E seeds \in SeedInputs : \E err \in {Nil, ErrJoin} : Join(<<seeds>>, err)

LoopStops == \E l \in 1..Len(loops) : LoopStop(l)

\* the local node joins and leaves
LifeEvents ==
    { [Type |-> t, Members |-> <<CHOOSE p \in Peers : p.Name = LocalSeq.Id /\ p.Tags = TagsA>>] :
        t \in {EventMemberJoin, EventMemberLeave} }

TransportLife ==
    \E t \in 1..Len(transports) : \E e \in LifeEvents :
        /\ Calls < MaxCalls
        /\ Send(t, e)

\* a handler is installed or taken away
SwitchHandler == \E h \in {"accept", NoHandler} : SetHandler(h)

NextLife ==
    \/ StartAny
    \/ StartCreates
    \/ StartLaunch
    \/ StartJoins
    \/ StopAny
    \/ StopClose
    \/ JoinAny
    \/ SwitchHandler
    \/ TransportLife
    \/ Loop
    \/ LoopStops

SpecLife == InitLife /\ [][NextLife]_vars

\* ------------------------------------------------------------------------
\* SpecStop: one Start and then one Stop, with handlers whose hooks return
\* installed at any time; the goroutines that can run do run
\* ------------------------------------------------------------------------
InitStop == Init /\ member = LocalSeq

StopOnce == startRet = Nil /\ stopRet = <<>> /\ StopShutdown

InstallHandler == \E h \in Handlers : SetHandler(h)

TransportStop ==
    \E t \in 1..Len(transports) : \E e \in SeqEvents :
        /\ Len(Flatten(arrived)) < MaxStopSent
        /\ Send(t, e)

NextStop ==
    \/ StartOnce
    \/ StartCreates
    \/ StartLaunch
    \/ StopOnce
    \/ StopClose
    \/ InstallHandler
    \/ TransportStop
    \/ Loop
    \/ LoopStops

SpecStop ==
    /\ InitStop
    /\ [][NextStop]_vars
    /\ WF_vars(StopClose)
    /\ WF_vars(Loop)
    /\ WF_vars(LoopStops)

\* ------------------------------------------------------------------------
\* SpecRead: one Start and then one Stop, with Join, SetHandler and
\* Members calls from other goroutines at any time
\* ------------------------------------------------------------------------
InitRead == Init /\ member = LocalSeq

\* the local node joins and leaves, another node joins
ReadEvents ==
    { [Type |-> EventMemberJoin, Members |-> <<p>>] :
        p \in {q \in Peers : q.Tags \in {TagsA, TagsC}} }
        \cup { e \in LifeEvents : e.Type = EventMemberLeave }

TransportRead ==
    \E t \in 1..Len(transports) : \E e \in ReadEvents :
        /\ Len(Flatten(arrived)) < MaxReadSent
        /\ Send(t, e)

\* a Join call of another goroutine, at any time, also while Start or Stop
\* is in progress
JoinSome ==
    /\ Len(joinRet) < MaxReadCalls
    /\ \E seeds \in SeedInputs : \E err \in {Nil, ErrJoin} : Join(<<seeds>>, err)

MembersSome == reader.calls < MaxReadCalls /\ MembersBegin

MembersVisits == \E k \in Keys : MembersVisit(k)

NextRead ==
    \/ StartOnce
    \/ StartCreates
    \/ StartLaunch
    \/ StopOnce
    \/ StopClose
    \/ JoinSome
    \/ SwitchHandler
    \/ TransportRead
    \/ Loop
    \/ LoopStops
    \/ MembersSome
    \/ MembersVisits

SpecRead == InitRead /\ [][NextRead]_vars

\* ------------------------------------------------------------------------
\* SpecHyper: the Loop body as a function of the registry, run side by side
\* on the same events with no Handler, an accepting Handler, a rejecting
\* Handler, and a Handler picked anew for every member
\* ------------------------------------------------------------------------
Modes == {"none", "accept", "reject", "mixed"}

\* lines 142-156, 159-173, 176-187 for one member of an event of a handled
\* type, with s.handler = h
ProcessMember(reg, type, peer, h) ==
    LET latest == TranslateOf(peer)
    IN  IF type \in UpsertTypes
        THEN IF h # NoHandler
             THEN IF HookResult(h, latest) = Nil
                  THEN StoreAfterHookOk(reg, latest)
                  ELSE StoreAfterHookError(reg, latest)
             ELSE StoreNoHandler(reg, latest)
        ELSE RemoveLeft(reg, latest)

\* the `for _, member := range Members` of one case: the members in order,
\* hs[j] the handler installed while member j is processed
RECURSIVE ProcessMembers(_, _, _, _, _)
ProcessMembers(reg, type, ms, hs, j) ==
    IF j < 1 \/ j > Len(ms) THEN reg
    ELSE ProcessMembers(ProcessMember(reg, type, ms[j], hs[j]), type, ms, hs, NextIndex(j))

\* lines 140-188 for one event: the switch on its type; an event of another
\* type falls through
ProcessEvent(reg, e, hs) ==
    IF e.Type \in HandledTypes THEN ProcessMembers(reg, e.Type, e.Members, hs, 1) ELSE reg

\* the handlers of a side-by-side run for the members of e
ModeHandlers(m, e, picked) ==
    IF m = "mixed" THEN picked
    ELSE [j \in 1..Len(e.Members) |-> IF m = "none" THEN NoHandler ELSE m]

\* registries the program can hold: per node, no entry or one translated descriptor
BaseRegistries ==
    { [n \in {p.Name : p \in S} |-> Translate(CHOOSE p \in S : p.Name = n)] :
        S \in { T \in SUBSET Peers : \A p, q \in T : p.Name = q.Name => p = q } }

InitHyper == Init /\ member = LocalSeq

HyperStart ==
    /\ hRegs = <<>>
    /\ \E base \in BaseRegistries : hRegs' = <<[m \in Modes |-> base]>>
    /\ UNCHANGED <<progVars, hSeq>>

HyperStep ==
    \E e \in TransportEvents :
        /\ hRegs # <<>>
        /\ TotalCost(hSeq) + Cost(e) <= MaxHyperPeers
        /\ \E picked \in [1..Len(e.Members) -> Handlers \cup {NoHandler}] :
            /\ hSeq' = Append(hSeq, e)
            /\ hRegs' = Append(hRegs, [m \in Modes |->
                            ProcessEvent(hRegs[Len(hRegs)][m], e, ModeHandlers(m, e, picked))])
        /\ UNCHANGED progVars

NextHyper == HyperStart \/ HyperStep

SpecHyper == InitHyper /\ [][NextHyper]_vars

\* ------------------------------------------------------------------------
\* Properties
\* ------------------------------------------------------------------------
LoopIds == 1..Len(loops)

\* the registry entry the spec describes for a peer descriptor: id, one
\* endpoint "host:port" in both address fields, the reported tags
HostText(ip) ==
    CASE ip = <<10, 0, 0, 1>> -> <<"1", "0", ".", "0", ".", "0", ".", "1">>
      [] ip = IPv6LinkLocal -> <<"f", "e", "8", "0", ":", ":", "1">>
      [] ip = IPv4Mapped -> <<"1", "9", "2", ".", "1", "6", "8", ".", "1", ".", "2", "0">>

Endpoint(peer) == HostText(peer.Addr) \o <<":">> \o Itoa(peer.Port)

HoldsPayload(reg, peer) ==
    /\ peer.Name \in DOMAIN reg
    /\ reg[peer.Name].Id = peer.Name
    /\ reg[peer.Name].Addr = Endpoint(peer)
    /\ reg[peer.Name].Advertise = Endpoint(peer)
    /\ reg[peer.Name].Tags = peer.Tags
    /\ DOMAIN reg[peer.Name].Tags = DOMAIN peer.Tags

\* the event of loop l is a handled event whose members are all done
EventDone(l) ==
    /\ loops[l].pc = "recv"
    /\ loops[l].taken > 0
    /\ loops[l].e.Type \in HandledTypes
    /\ Len(loops[l].done) = Len(loops[l].e.Members)

\* C1: fail-open. A member of a join or update event whose hook returned an
\* error is in the registry under its id with the translated payload of that
\* event, from the moment the member is done until the loop takes the next
\* event, so in particular once the event is processed.
C1_FailOpen ==
    \A l \in LoopIds : \A j \in 1..Len(loops[l].done) :
        (loops[l].e.Type \in UpsertTypes /\ loops[l].done[j].hook = ErrHook)
            => HoldsPayload(members, loops[l].done[j].peer)

\* an update event of two members is processed, the hook rejected both
C1_Witness ==
    \E l \in LoopIds :
        /\ EventDone(l)
        /\ loops[l].e.Type = EventMemberUpdate
        /\ Len(loops[l].done) = 2
        /\ \A j \in 1..2 : loops[l].done[j].hook = ErrHook /\ loops[l].done[j].hooks = 1

\* C2: every member id of a leave or failed event is absent from the registry
\* once the member is done and until the loop takes the next event, whether no
\* handler was installed, OnMemberLeave returned nil or returned an error.
C2_LeaveRemoves ==
    \A l \in LoopIds : \A j \in 1..Len(loops[l].done) :
        loops[l].e.Type \in RemoveTypes
            => ~Load(members, loops[l].done[j].peer.Name).ok

\* a join of a node was processed, then a failed event for it whose hook
\* returned an error
C2_Witness ==
    \E l \in LoopIds :
        /\ EventDone(l)
        /\ loops[l].taken = 2
        /\ loops[l].e.Type = EventMemberFailed
        /\ loops[l].done[1].hook = ErrHook
        /\ arrived[loops[l].ch][1].Type = EventMemberJoin
        /\ arrived[loops[l].ch][1].Members[1].Name = loops[l].e.Members[1].Name

\* the descriptors loop l has applied so far, oldest first, with the type of
\* their event: the members of the events before the one in flight and the
\* members done of the event in flight
AppliedBy(l) ==
    LET lp == loops[l]
        evs == IF lp.taken = 0 THEN <<>> ELSE SubSeq(arrived[lp.ch], 1, lp.taken - 1)
        Tagged(e) == [j \in 1..Len(e.Members) |-> [Type |-> e.Type, peer |-> e.Members[j]]]
    IN  Flatten([k \in 1..Len(evs) |-> Tagged(evs[k])])
            \o [j \in 1..Len(lp.done) |-> [Type |-> lp.e.Type, peer |-> lp.done[j].peer]]

\* the last join/update/leave/failed entry of a that mentions id, 0 if none
LastMention(a, id) ==
    LET ks == {k \in 1..Len(a) : a[k].peer.Name = id /\ a[k].Type \in HandledTypes}
    IN  IF ks = {} THEN 0 ELSE CHOOSE k \in ks : \A k2 \in ks : k2 <= k

\* C3: between two members (and after any event) the registry holds at most
\* one entry per id; it holds an entry for id iff the last applied event
\* mentioning id was a join or update, and the entry is exactly the payload of
\* that event, with no tag key of an earlier event.
C3_LastEventWins ==
    \A l \in LoopIds :
        loops[l].pc \in {"recv", "member"} =>
            /\ \A m1, m2 \in Entries(members) : m1.Id = m2.Id => m1 = m2
            /\ \A k \in DOMAIN members : members[k].Id = k
            /\ \A id \in DOMAIN members \cup Names :
                LET a == AppliedBy(l)
                    k == LastMention(a, id)
                IN  /\ Load(members, id).ok <=> (k # 0 /\ a[k].Type \in UpsertTypes)
                    /\ Load(members, id).ok => HoldsPayload(members, a[k].peer)

\* Join(p1, {group:a, service:s}), Update(p1, {group:b}), Leave(p1) have been
\* processed in this order and Members() is empty
C3_Witness ==
    \E l \in LoopIds :
        /\ EventDone(l)
        /\ loops[l].taken = 3
        /\ LET a == arrived[loops[l].ch]
           IN  /\ a[1].Type = EventMemberJoin /\ a[1].Members[1].Tags = TagsA
               /\ a[2].Type = EventMemberUpdate /\ a[2].Members[1].Tags = TagsB
               /\ a[3].Type = EventMemberLeave
               /\ \A k \in 1..3 : a[k].Members[1].Name = "p1"
        /\ Entries(members) = {}

\* C4: a member of a join event processed with no handler installed is stored
\* under the peer's name with Id the name, Addr and Advertise the one
\* endpoint "host:port" of the reported address and port (for an IPv4 address
\* it splits back into that host and port), and Tags the reported tags.
C4_JoinNoHandler ==
    \A l \in LoopIds : \A j \in 1..Len(loops[l].done) :
        (loops[l].e.Type = EventMemberJoin /\ loops[l].done[j].hook = "none")
            => LET p == loops[l].done[j].peer
                   hp == NetSplitHostPort(members[p.Name].Addr)
               IN  /\ HoldsPayload(members, p)
                   /\ IndexesOf(HostText(p.Addr), ":") = {} =>
                        /\ hp.err = Nil
                        /\ hp.host = HostText(p.Addr)
                        /\ Atoi(hp.port) = [val |-> Itoa(p.Port), err |-> Nil]

\* a join of 192.168.1.20:80 with tags {group:a, replicas:2} was processed
\* without a handler and the entry reads p2, "192.168.1.20:80"
C4_Witness ==
    \E l \in LoopIds :
        /\ EventDone(l)
        /\ loops[l].e.Type = EventMemberJoin
        /\ loops[l].done[1].hook = "none"
        /\ loops[l].done[1].hooks = 0
        /\ loops[l].done[1].peer.Name = "p2"
        /\ Load(members, "p2").ok
        /\ members["p2"].Addr = <<"1", "9", "2", ".", "1", "6", "8", ".", "1", ".", "2", "0", ":", "8", "0">>
        /\ members["p2"].Advertise = members["p2"].Addr
        /\ members["p2"].Tags = TagsC

\* C5: the registry depends on the events only, not on the Handler: after
\* every event of any sequence, from any starting registry, the runs with no
\* Handler, with a Handler whose hooks return nil, with one whose hooks return
\* errors and with a Handler changed between members hold the same registry
\* (so Members() and LocalMember() answer the same).
C5_HandlerIndependent ==
    \A k \in 1..Len(hRegs) : \A m1, m2 \in Modes : hRegs[k][m1] = hRegs[k][m2]

\* a join and then an update were fed, each changed the registry of the run
\* whose hooks return errors
C5_Witness ==
    /\ Len(hSeq) = 2
    /\ hSeq[1].Type = EventMemberJoin
    /\ hSeq[2].Type = EventMemberUpdate
    /\ hRegs[2]["reject"] # hRegs[1]["reject"]
    /\ hRegs[3]["reject"] # hRegs[2]["reject"]
    /\ hRegs[3]["reject"] = hRegs[3]["none"]

\* events k, k+1, k+2 fed are Join, Leave, Join of one node, one member each
JoinLeaveJoinAt(k) ==
    /\ k + 2 <= Len(hSeq)
    /\ hSeq[k].Type = EventMemberJoin
    /\ hSeq[k + 1].Type = EventMemberLeave
    /\ hSeq[k + 2].Type = EventMemberJoin
    /\ \A d \in 0..2 : Len(hSeq[k + d].Members) = 1 /\ hSeq[k + d].Members[1].Name = hSeq[k].Members[1].Name

\* C6: from any registry, processing Join(p), Leave(p), Join(p) leaves the
\* registry that processing only the last Join would leave, for any payloads
\* of the two joins and any handler.
C6_JoinLeaveJoin ==
    \A k \in 1..Len(hSeq) :
        JoinLeaveJoinAt(k) =>
            \A m \in Modes : \A h \in Handlers \cup {NoHandler} :
                hRegs[k + 3][m] = ProcessEvent(hRegs[k][m], hSeq[k + 2], <<h>>)

\* Join, Leave, Join of p1 with two different payloads were fed to a registry
\* that already held p1 (with the payload of the first join) and p2
C6_Witness ==
    /\ JoinLeaveJoinAt(1)
    /\ hSeq[1].Members[1] # hSeq[3].Members[1]
    /\ DOMAIN hRegs[1]["none"] = {"p1", "p2"}
    /\ HoldsPayload(hRegs[1]["none"], hSeq[1].Members[1])
    /\ hRegs[3]["none"] # hRegs[1]["none"]
    /\ HoldsPayload(hRegs[4]["mixed"], hSeq[3].Members[1])

\* the events received from channel c by the loops that range over it
TakenFrom(c) ==
    LET ls == {l \in LoopIds : loops[l].ch = c}
    IN  IF ls = {} THEN 0 ELSE loops[CHOOSE l \in ls : TRUE].taken

\* C7: every event sent on the channel is received exactly once and in
\* arrival order (the k-th event a loop takes is the k-th event sent, the
\* buffer is exactly the events sent and not yet taken), and the members of
\* the event in flight are done one at a time in the order of the batch.
C7_FifoInOrder ==
    /\ \A c \in 1..Len(chans) :
        /\ Cardinality({l \in LoopIds : loops[l].ch = c}) <= 1
        /\ TakenFrom(c) <= Len(arrived[c])
        /\ chans[c].buf = SubSeq(arrived[c], TakenFrom(c) + 1, Len(arrived[c]))
    /\ \A l \in LoopIds :
        LET lp == loops[l]
        IN  /\ lp.taken > 0 => lp.e = arrived[lp.ch][lp.taken]
            /\ lp.taken = 0 => lp.e = NoEvent /\ lp.done = <<>>
            /\ Len(lp.done) <= Len(lp.e.Members)
            /\ \A j \in 1..Len(lp.done) : lp.done[j].peer = lp.e.Members[j]
            /\ lp.pc \in {"member", "call", "hook", "panic"} =>
                /\ lp.e.Type \in HandledTypes
                /\ lp.i = Len(lp.done) + 1
                /\ lp.i <= Len(lp.e.Members)
            /\ (lp.pc = "recv" /\ lp.e.Type \in HandledTypes) =>
                Len(lp.done) = Len(lp.e.Members)
            /\ (lp.pc = "recv" /\ lp.e.Type \notin HandledTypes) => lp.done = <<>>

\* a user event and then a join of two different nodes were sent; both were
\* taken in that order and the two members were done in batch order
C7_Witness ==
    \E l \in LoopIds :
        /\ EventDone(l)
        /\ loops[l].taken = 2
        /\ arrived[loops[l].ch][1].Type = EventUser
        /\ arrived[loops[l].ch][2].Type = EventMemberJoin
        /\ Len(loops[l].done) = 2
        /\ loops[l].done[1].peer.Name = "p2"
        /\ loops[l].done[2].peer.Name = "p1"
        /\ chans[loops[l].ch].buf = <<>>

\* two lookups answer the same
SameEntry(a, b) == a.ok = b.ok /\ (a.ok => a.val = b.val)

\* the hook calls recorded for the members done agree with the hook results
HooksCounted(lp) ==
    \A j \in 1..Len(lp.done) :
        \/ lp.done[j].hook = "none" /\ lp.done[j].hooks = 0
        \/ lp.done[j].hook \in {Nil, ErrHook} /\ lp.done[j].hooks = 1

\* C8: for a member of a join or update event that found a handler installed,
\* the hook is called exactly once and before the Store: until the hook has
\* returned the registry holds for the id what it held when the member was
\* taken (the previous entry or none), and the member is stored afterwards.
C8_HookBeforeStore ==
    \A l \in LoopIds :
        LET lp == loops[l]
        IN  lp.e.Type \in UpsertTypes =>
                /\ lp.pc = "call" => lp.hooks = 0 /\ SameEntry(Load(members, LatestOf(lp).Id), lp.prev)
                /\ lp.pc = "hook" => lp.hooks = 1 /\ SameEntry(Load(members, LatestOf(lp).Id), lp.prev)
                /\ HooksCounted(lp)
                /\ \A j \in 1..Len(lp.done) : HoldsPayload(members, lp.done[j].peer)

\* OnMemberUpdate is executing for a node whose earlier, different entry is
\* still in the registry
C8_Witness ==
    \E l \in LoopIds :
        /\ loops[l].pc = "hook"
        /\ loops[l].e.Type = EventMemberUpdate
        /\ loops[l].hooks = 1
        /\ loops[l].prev.ok
        /\ loops[l].prev.val # LatestOf(loops[l])
        /\ members[LatestOf(loops[l]).Id] = loops[l].prev.val

\* C9: for a member of a leave or failed event the entry is removed before
\* OnMemberLeave is called: from the handler test until the hook has returned
\* and after it the id is absent, and the hook is called exactly once when a
\* handler is installed.
C9_RemoveBeforeHook ==
    \A l \in LoopIds :
        LET lp == loops[l]
        IN  lp.e.Type \in RemoveTypes =>
                /\ lp.pc = "call" => lp.hooks = 0 /\ ~Load(members, LatestOf(lp).Id).ok
                /\ lp.pc = "hook" => lp.hooks = 1 /\ ~Load(members, LatestOf(lp).Id).ok
                /\ HooksCounted(lp)
                /\ \A j \in 1..Len(lp.done) : lp.done[j].peer.Name \notin DOMAIN members

\* OnMemberLeave is executing for a node that was in the registry when the
\* leave event was taken and is absent now
C9_Witness ==
    \E l \in LoopIds :
        /\ loops[l].pc = "hook"
        /\ loops[l].e.Type = EventMemberLeave
        /\ loops[l].hooks = 1
        /\ loops[l].prev.ok
        /\ LatestOf(loops[l]).Id \notin DOMAIN members

\* what the spec says of an address: a malformed host:port pair (no port
\* separator, or several in an unbracketed host), a port that is not a number
\* an int holds, or fine
ColonCount(a) == Cardinality(IndexesOf(a, ":"))

PortPart(a) == SubSeq(a, LastIndexOf(a, ":") + 1, Len(a))

\* the digits of a port text, after its sign if it has one
PortDigits(a) ==
    IF PortPart(a) # <<>> /\ PortPart(a)[1] \in {"+", "-"} THEN Tail(PortPart(a)) ELSE PortPart(a)

\* the port text is a decimal number an int can hold
PortIsInt(a) ==
    /\ PortDigits(a) # <<>>
    /\ \A k \in 1..Len(PortDigits(a)) : IsDigit(PortDigits(a)[k])
    /\ DigitsLeq(StripZeros(PortDigits(a)),
                 IF PortPart(a)[1] = "-" THEN MinInt64Abs ELSE MaxInt64)

ExpectedParseError(a) ==
    IF ColonCount(a) # 1 THEN ErrParseAddrToHostPort
    ELSE IF ~PortIsInt(a) THEN ErrParsePort
    ELSE Nil

\* C10: a Start that fails returns the error of the first failing step, the
\* advertise address, then the bind address, then serf.Create, and then no
\* Loop goroutine has been launched and no join request has reached the
\* transport.
C10_StartFailure ==
    startRet \notin {"none", "running"} =>
        /\ IF ExpectedParseError(member.Advertise) # Nil
           THEN startRet = ExpectedParseError(member.Advertise)
           ELSE IF ExpectedParseError(member.Addr) # Nil
           THEN startRet = ExpectedParseError(member.Addr)
           ELSE startRet \in {ErrCreate, Nil}
        /\ startRet # Nil => loops = <<>> /\ joinReqs = <<>>
        /\ startRet = Nil => Len(loops) = 1

\* Start failed on serf.Create with well-formed addresses and seeds configured
C10_Witness ==
    /\ startRet = ErrCreate
    /\ member.Routers # <<>>
    /\ ExpectedParseError(member.Advertise) = Nil
    /\ ExpectedParseError(member.Addr) = Nil
    /\ loops = <<>>
    /\ joinReqs = <<>>

\* Start failed on an advertise address without a port separator
C10_WitnessAdvertise ==
    /\ startRet = ErrParseAddrToHostPort
    /\ member.Advertise = <<"h", "8", "0">>
    /\ member.Routers # <<>>
    /\ loops = <<>>

\* the members of every event sent on the channel of loop l are done
Drained(l) ==
    LET lp == loops[l]
    IN  /\ chans[lp.ch].buf = <<>>
        /\ lp.taken = Len(arrived[lp.ch])
        /\ lp.taken > 0 => lp.e = arrived[lp.ch][lp.taken]
        /\ Len(lp.done) = IF lp.e.Type \in HandledTypes THEN Len(lp.e.Members) ELSE 0

\* the channel a serf instance sends on is closed only once the instance is
\* shut down
ShutdownBeforeClose ==
    \A t \in 1..Len(transports) : chans[transports[t].EventCh].closed => ~transports[t].alive

\* a stopped Loop has drained its closed channel
StoppedDrained ==
    \A l \in LoopIds : loops[l].pc = "stopped" => chans[loops[l].ch].closed /\ Drained(l)

\* a stopped Loop takes no event and changes nothing
StoppedIsTerminal ==
    \A l \in LoopIds :
        loops[l].pc = "stopped" =>
            /\ loops'[l] = loops[l]
            /\ members' = members
            /\ chans'[loops[l].ch] = chans[loops[l].ch]

\* C11: after a successful Start, one Stop call shuts the transport down
\* before it closes the event channel; once Stop has returned the Loop
\* eventually stops (hooks return); when it stops every event sent on the
\* channel, those buffered at the close included, has been processed, and a
\* stopped Loop processes nothing more.
C11_StopDrains ==
    /\ []ShutdownBeforeClose
    /\ []StoppedDrained
    /\ [][StoppedIsTerminal]_vars
    /\ ((stopRet # <<>>) ~> (\A l \in LoopIds : loops[l].pc = "stopped"))

\* Stop closed the channel with two events buffered; the Loop has processed
\* both, the second with a hook call, and stopped
C11_Witness ==
    /\ Len(stopRet) = 1
    /\ stopRet[1].out = "returned"
    /\ stopRet[1].pending = 2
    /\ Len(loops) = 1
    /\ loops[1].pc = "stopped"
    /\ loops[1].taken = 2
    /\ loops[1].done # <<>>
    /\ loops[1].done[1].hooks = 1
    /\ ~transports[1].alive

\* C12 as claimed: every join request the transport receives, from Join and
\* from Start with seeds, has the ignore-old flag off, so that the events
\* older than the join are replayed.
C12_ReplayRequested ==
    \A k \in 1..Len(joinReqs) : joinReqs[k].ignoreOld = FALSE

\* C12 as the code has it: every join request the transport receives, from
\* Join and from Start with seeds, has the ignore-old flag on, so that no
\* replay of the events older than the join is asked for.
C12_IgnoreOldSet ==
    \A k \in 1..Len(joinReqs) : joinReqs[k].ignoreOld = TRUE

\* the transport received the join of Start for the configured seeds a and b
\* and then the join of a Join call for seed c
C12_Witness ==
    /\ Len(joinReqs) = 2
    /\ joinReqs[1].seeds = << <<"a">>, <<"b">> >>
    /\ joinReqs[2].seeds = << <<"c">> >>
    /\ Len(joinRet) = 1
    /\ startRet = Nil

\* a step in which a Join call returns
JoinReturns == joinRet' # joinRet

\* C13: a Join call that returns has sent exactly one join request to the
\* current serf instance, for the seeds it was given, returns the error the
\* instance answered (nil on success) and leaves the registry as it was.
C13_JoinPropagates ==
    [][JoinReturns =>
        /\ Len(joinRet') = Len(joinRet) + 1
        /\ SubSeq(joinRet', 1, Len(joinRet)) = joinRet
        /\ Len(joinReqs') = Len(joinReqs) + 1
        /\ SubSeq(joinReqs', 1, Len(joinReqs)) = joinReqs
        /\ joinReqs'[Len(joinReqs')].serf = serf
        /\ joinReqs'[Len(joinReqs')].seeds \in {<<sd>> : sd \in SeedInputs}
        /\ joinRet'[Len(joinRet')] = joinReqs'[Len(joinReqs')].err
        /\ members' = members]_vars

\* a Join call returned the error of the transport, the next one returned nil;
\* each sent one request (the first request is the one of Start)
C13_Witness ==
    /\ joinRet = <<ErrJoin, Nil>>
    /\ Len(joinReqs) = 3
    /\ joinReqs[2].err = ErrJoin
    /\ joinReqs[3].err = Nil

\* the Loop goroutines that are launched and have not returned
ActiveLoops == {l \in LoopIds : loops[l].pc # "stopped"}

\* C14 as claimed: whatever Start, Stop and Join calls are made, at most one
\* Loop goroutine is active at any time.
C14_AtMostOneLoop == Cardinality(ActiveLoops) <= 1

\* a step of loop l that takes an event from its channel
Dequeues(l) == loops'[l].taken # loops[l].taken

\* the buffer of the channel of loop l only grows at its end
BufferKept(l) ==
    LET c == loops[l].ch
    IN  /\ Len(chans'[c].buf) >= Len(chans[c].buf)
        /\ SubSeq(chans'[c].buf, 1, Len(chans[c].buf)) = chans[c].buf

\* C15: while a hook called by the Loop has not returned the Loop takes no
\* event from the channel and the registry does not change; when the hook
\* never returns the Loop stays in it for good, the events sent later stay in
\* the channel and the registry stays as it was.
C15_HooksSynchronous ==
    [][\A l \in LoopIds :
        loops[l].pc = "hook" =>
            /\ ~Dequeues(l)
            /\ loops'[l].pc = "hook" =>
                  loops'[l] = loops[l] /\ members' = members /\ BufferKept(l)
            /\ ~HookReturns(loops[l].h) =>
                  loops'[l] = loops[l] /\ members' = members /\ BufferKept(l)]_vars

\* OnMemberUpdate of a handler that never returns is executing; a later
\* event waits in the channel and the registry still holds the entry of the
\* join processed before
C15_Witness ==
    \E l \in LoopIds :
        /\ loops[l].pc = "hook"
        /\ loops[l].h = BlockingHandler
        /\ loops[l].e.Type = EventMemberUpdate
        /\ loops[l].taken = 2
        /\ Len(chans[loops[l].ch].buf) = 1
        /\ loops[l].prev.ok
        /\ SameEntry(Load(members, LatestOf(loops[l]).Id), loops[l].prev)

\* C16: Stop has no lifecycle guard. A Stop call that finds s.events nil (no
\* Start before it) or already closed (a Stop before it, no Start since)
\* panics on the close and does not return; a Stop call that finds the channel
\* of the last Start open closes it and returns.
C16_StopNoGuard ==
    /\ \A k \in 1..Len(stopRet) :
        /\ stopRet[k].chan \in {"nil", "closed"} => stopRet[k].out = "panic"
        /\ stopRet[k].chan = "open" => stopRet[k].out = "returned"
        /\ stopRet[k].out = "panic" => k = Len(stopRet) /\ caller = "panic"
    /\ (chans = <<>> /\ stopRet # <<>>) => stopRet[1].chan = "nil"
    /\ \A k \in 1..Len(stopRet) :
        stopRet[k].chan = "closed" => k > 1 /\ stopRet[k - 1].out = "returned"

\* after a Start a first Stop returned and a second Stop panicked on the
\* closed channel
C16_Witness ==
    /\ Len(chans) = 1
    /\ Len(stopRet) = 2
    /\ stopRet[1] = [chan |-> "open", out |-> "returned", pending |-> 0]
    /\ stopRet[2].chan = "closed"
    /\ stopRet[2].out = "panic"
    /\ chans[1].closed

\* a Stop before any Start panicked on the nil channel
C16_WitnessNil ==
    /\ chans = <<>>
    /\ Len(stopRet) = 1
    /\ stopRet[1].chan = "nil"
    /\ stopRet[1].out = "panic"

\* C17 as claimed: the Loop never calls a hook on a nil Handler, also when
\* SetHandler runs between the nil test of s.handler and the call.
C17_NoNilHookCall ==
    \A l \in LoopIds : loops[l].pc # "panic"

\* C18: with seeds configured and serf.Create successful, Start launches the
\* Loop, then sends exactly one join request for the seeds split at the
\* commas, and returns nil whatever the join answered; the Loop it launched
\* keeps running.
C18_StartDiscardsJoin ==
    /\ caller = "start_join" =>
        /\ member.Routers # <<>>
        /\ startRet = "running"
        /\ Len(loops) = 1
        /\ joinReqs = <<>>
    /\ joinReqs # <<>> =>
        /\ startRet = Nil
        /\ Len(joinReqs) = 1
        /\ joinReqs[1].serf = serf
        /\ serf # 0
        /\ member.Routers = <<"a", ",", "b">>
        /\ joinReqs[1].seeds = << <<"a">>, <<"b">> >>
        /\ Len(loops) = 1
    /\ (startRet = Nil /\ member.Routers # <<>>) => Len(joinReqs) = 1
    /\ (startRet = Nil /\ member.Routers = <<>>) => joinReqs = <<>>

\* the join of Start was answered with an error, Start returned nil and the
\* Loop has since processed an event
C18_Witness ==
    /\ startRet = Nil
    /\ Len(joinReqs) = 1
    /\ joinReqs[1].err = ErrJoin
    /\ Len(loops) = 1
    /\ loops[1].taken = 1
    /\ loops[1].pc = "recv"
    /\ members # EmptyMap

\* the four event types the switch of Loop has a case for
CaseTypes == {EventMemberJoin, EventMemberUpdate, EventMemberLeave, EventMemberFailed}

\* the event loop l took last has none of the four types
TookOther(l) == loops[l].taken > 0 /\ loops[l].e.Type \notin CaseTypes

\* C19: an event of another type than join, update, leave, failed is taken
\* from the channel and dropped: the Loop is at once ready for the next event,
\* no member of it is processed, no hook is called, and the registry does not
\* change from the receive until the next event is taken.
C19_OtherEventsIgnored ==
    /\ [](\A l \in LoopIds :
            TookOther(l) =>
                /\ loops[l].pc = "recv"
                /\ loops[l].done = <<>>
                /\ loops[l].hooks = 0
                /\ loops[l].e = arrived[loops[l].ch][loops[l].taken])
    /\ [][\A l \in LoopIds :
            (TookOther(l) \/ (Dequeues(l) /\ loops'[l].e.Type \notin CaseTypes))
                => members' = members]_vars

\* a join of p1 was processed, then a reap event that names p1 was taken: p1
\* is still in the registry with the payload of the join
C19_Witness ==
    \E l \in LoopIds :
        /\ loops[l].taken = 2
        /\ loops[l].e.Type = EventMemberReap
        /\ loops[l].e.Members[1].Name = "p1"
        /\ arrived[loops[l].ch][1].Type = EventMemberJoin
        /\ HoldsPayload(members, arrived[loops[l].ch][1].Members[1])
        /\ arrived[loops[l].ch][1].Members[1].Name = "p1"
        /\ chans[loops[l].ch].buf = <<>>

\* a step of Stop, Join or SetHandler (or of the Start call's join)
FacadeStep ==
    \/ stopRet' # stopRet
    \/ caller' # caller
    \/ joinRet' # joinRet
    \/ joinReqs' # joinReqs
    \/ handler' # handler
    \/ transports' # transports

\* the slice a Members call returned holds exactly the entries of reg
ReturnsAll(out, reg) ==
    /\ {out[j] : j \in 1..Len(out)} = Entries(reg)
    /\ Len(out) = Cardinality(DOMAIN reg)

\* C20: no step of Stop, Join or SetHandler changes the registry, and once
\* the Loop has drained and stopped the registry stays as the last processed
\* event left it: LocalMember() keeps its answer and a Members() call made
\* from then on returns exactly the entries of the registry.
C20_FacadeKeepsRegistry ==
    [][/\ FacadeStep => members' = members
       /\ AllStopped =>
            /\ members' = members
            /\ LocalMember' = LocalMember
       /\ (reader.pc = "range" /\ reader'.pc = "done" /\ reader'.quiet) =>
            ReturnsAll(reader'.out, members)]_vars

\* Stop returned and the Loop has stopped; the local node, whose join was
\* processed, is still in the registry and a Members() call made after the
\* Loop stopped returned it
C20_Witness ==
    /\ Len(stopRet) = 1
    /\ stopRet[1].out = "returned"
    /\ AllStopped
    /\ Len(loops) = 1
    /\ loops[1].taken = 1
    /\ loops[1].e.Type = EventMemberJoin
    /\ HoldsPayload(members, loops[1].e.Members[1])
    /\ Load(members, member.Id).ok
    /\ reader.pc = "done"
    /\ reader.quiet
    /\ reader.out = <<LocalMember>>

\* a Members call that ran beside the Loop returned a slice the registry held
\* at no time: joins of p1 and then p2 were processed, the Range came upon p1
\* before it was stored and upon p2 after
C20_WitnessConcurrent ==
    /\ reader.pc = "done"
    /\ ~reader.quiet
    /\ Len(reader.out) = 1
    /\ reader.out[1].Id = "p2"
    /\ DOMAIN members = {"p1", "p2"}
    /\ Len(arrived) = 1
    /\ Len(arrived[1]) = 2
    /\ arrived[1][1].Members[1].Name = "p1"
    /\ arrived[1][2].Members[1].Name = "p2"

\* a Join call of another goroutine ran while Stop was between the shutdown
\* and the close: the instance answered with an error, the registry kept the
\* entry of the join processed before
C20_WitnessJoinDuringStop ==
    /\ caller = "stop_close"
    /\ joinRet = <<ErrJoin>>
    /\ ~transports[serf].alive
    /\ Load(members, member.Id).ok

\* a Join call of another goroutine ran while Start was inside serf.Create,
\* s.serf still nil: the call panicked
C20_WitnessJoinDuringStart ==
    /\ caller = "panic"
    /\ startRet = "running"
    /\ Len(transports) = 1
    /\ serf = 0
    /\ joinRet = <<>>
    /\ stopRet = <<>>

====
